---- MODULE Spec2Model ----
(***************************************************************************)
(* Model of the card-on-file application: the local JSON mirror            *)
(* (CustomerDataStore / PaymentMethodDataStore), the client-facing route   *)
(* handlers that write to the provider and to the mirror, and the webhook  *)
(* endpoint that projects provider events onto the mirror.                 *)
(*                                                                         *)
(* Every route handler runs on the Node event loop: the code between two   *)
(* awaits runs without interleaving of other handlers.  A handler is       *)
(* therefore a sequence of segments; each file write inside a segment is   *)
(* one step of the model (the file is then in a written, readable state),  *)
(* and "cur" names the slot that is in the middle of a synchronous         *)
(* segment, so that no other handler runs until the segment ends.          *)
(***************************************************************************)
EXTENDS Integers, Sequences, FiniteSets, TLC

\* ---------------------------------------------------------------- bounds
\* Requests (API calls and client-side confirmations) and webhook
\* deliveries a behaviour may hold.
MaxRequests == 3
MaxDeliveries == 2

\* The provider's customer ids and payment-method ids, and the requests
\* the server may have in flight, are fixed universes.
CustomerIds == {1, 2}
PMIds == {1, 2}
Slots == {1, 2}
Emails == {"a@x"}

\* The year new Date().getFullYear() yields while the model runs.
CurrentYear == 2026

VARIABLES
    customers,       \* data/customers.json: sequence of CustomerData
    paymentMethods,  \* data/payment-methods.json: sequence of SavedPaymentMethod
    stripeCust,      \* provider: customer id -> [state, email]
    stripePM,        \* provider: payment method id -> [state, customer]
    stripeDefault,   \* provider: customer id -> invoice_settings.default_payment_method
    req,             \* route handlers in flight, one per slot
    cur,             \* slot inside a synchronous multi-write segment, or 0
    last,            \* the response most recently given
    nReq,            \* client requests started so far
    nDeliv,          \* webhook deliveries received so far
    acked,           \* the event answered 2xx last, how often in a row it was applied,
                     \* and whether the mirror was left alone since
    form,            \* SetupCardForm: the state of the save-card form in the browser
    processed,       \* save flow: events the provider has seen answered 2xx
    nFail,           \* save flow: provider lookups that failed inside webhook handlers
    intents,         \* provider: the PaymentIntents created so far
    pay,             \* OffSessionPayment: the state of the off-session form
    listReq          \* GET /api/customers: the pagination loop of a list request

mirror == <<customers, paymentMethods>>
others == <<form, intents, pay, listReq>>
delivery == <<processed, nFail>>
provider == <<stripeCust, stripePM, stripeDefault>>
vars == <<customers, paymentMethods, stripeCust, stripePM, stripeDefault,
          req, cur, last, nReq, nDeliv, acked, form, processed, nFail,
          intents, pay, listReq>>

\* ------------------------------------------------------- sequence helpers
Range(s) == {s[i] : i \in 1..Len(s)}

\* Array.prototype.findIndex on the id field: the least index, or 0 for -1.
FindIndexById(list, id) ==
    IF \E i \in 1..Len(list) : list[i].id = id
    THEN CHOOSE i \in 1..Len(list) :
            /\ list[i].id = id
            /\ \A j \in 1..(i - 1) : list[j].id # id
    ELSE 0

\* ------------------------------------------------------ CustomerDataStore
CustomerDataStore_getById(list, id) ==
    SelectSeq(list, LAMBDA c : c.id = id)

CustomerDataStore_getByEmail(list, email) ==
    SelectSeq(list, LAMBDA c : c.email = email)

CustomerDataStore_save(list, customer) ==
    LET existingIndex == FindIndexById(list, customer.id)
    IN  IF existingIndex > 0
        THEN [list EXCEPT ![existingIndex] = customer]
        ELSE Append(list, customer)

\* The file is rewritten only when a record was removed; the content
\* is the filtered list in both cases.
CustomerDataStore_delete(list, id) ==
    SelectSeq(list, LAMBDA c : c.id # id)

\* ------------------------------------------------- PaymentMethodDataStore
PaymentMethodDataStore_getByCustomerId(list, customerId) ==
    SelectSeq(list, LAMBDA pm : pm.customerId = customerId)

PaymentMethodDataStore_getById(list, id) ==
    SelectSeq(list, LAMBDA pm : pm.id = id)

\* Variant of save that never replaces an existing record.
PaymentMethodDataStore_save_AlwaysPush(list, paymentMethod) ==
    Append(list, paymentMethod)

PaymentMethodDataStore_save(list, paymentMethod) ==
    LET existingIndex == FindIndexById(list, paymentMethod.id)
    IN  IF existingIndex > 0
        THEN [list EXCEPT ![existingIndex] = paymentMethod]
        ELSE Append(list, paymentMethod)

\* Variant of delete whose filter keeps the record it should drop.
PaymentMethodDataStore_delete_KeepsMatch(list, id) ==
    SelectSeq(list, LAMBDA pm : pm.id = id)

PaymentMethodDataStore_delete(list, id) ==
    SelectSeq(list, LAMBDA pm : pm.id # id)

PaymentMethodDataStore_setAsDefault(list, paymentMethodId, customerId) ==
    LET cleared == [i \in 1..Len(list) |->
                      IF list[i].customerId = customerId
                      THEN [list[i] EXCEPT !.isDefault = FALSE]
                      ELSE list[i]]
        target == FindIndexById(cleared, paymentMethodId)
    IN  IF target > 0
        THEN [cleared EXCEPT ![target].isDefault = TRUE]
        ELSE cleared

\* ------------------------------------------------------------ the provider
\* What the provider holds for a payment method id: the card of the
\* PaymentMethod object (absent fields are falsy) and its creation time in
\* seconds.
AbsentCard == [brand |-> "", last4 |-> "", exp_month |-> 0, exp_year |-> 0]
VisaCard == [brand |-> "visa", last4 |-> "4242", exp_month |-> 12, exp_year |-> 2030]
ProviderCard(pm) == IF pm % 2 = 1 THEN VisaCard ELSE AbsentCard
ProviderCreated(id) == 1700 + id

\* The Stripe.PaymentMethod object the provider returns for id pm.
StripePaymentMethod(pm) ==
    [id |-> pm, card |-> ProviderCard(pm), created |-> ProviderCreated(pm)]

\* JavaScript's  a || b  on strings and on numbers.
OrString(a, b) == IF a = "" THEN b ELSE a
OrNumber(a, b) == IF a = 0 THEN b ELSE a

\* The SavedPaymentMethod literal built from a Stripe.PaymentMethod.
SavedPaymentMethod(paymentMethod, customerId, isDefault) ==
    [id |-> paymentMethod.id,
     customerId |-> customerId,
     type |-> "card",
     card |-> [brand |-> OrString(paymentMethod.card.brand, "unknown"),
               last4 |-> OrString(paymentMethod.card.last4, "0000"),
               exp_month |-> OrNumber(paymentMethod.card.exp_month, 1),
               exp_year |-> OrNumber(paymentMethod.card.exp_year, CurrentYear)],
     created |-> paymentMethod.created * 1000,
     isDefault |-> isDefault]

\* The CustomerData literal built from a Stripe.Customer.
CustomerData(id, email, name) ==
    [id |-> id, email |-> email, name |-> name,
     created |-> ProviderCreated(id) * 1000]

NoCustomer == [state |-> "none", email |-> ""]
FreePM == [state |-> "free", customer |-> 0]

\* stripe.customers.create assigns the next unused id.
FreeCustomerIds == {c \in CustomerIds : stripeCust[c].state = "none"}
NextCustomerId == CHOOSE c \in FreeCustomerIds : \A d \in FreeCustomerIds : c <= d

IsLive(c) == c \in CustomerIds /\ stripeCust[c].state = "live"
IsAttachedTo(pm, c) ==
    pm \in PMIds /\ stripePM[pm].state = "attached" /\ stripePM[pm].customer = c

\* stripe.customers.del: the customer is marked deleted and its payment
\* methods are detached.
ProviderDeleteCustomer(c) ==
    /\ stripeCust' = [stripeCust EXCEPT ![c].state = "deleted"]
    /\ stripePM' = [p \in PMIds |->
                      IF IsAttachedTo(p, c)
                      THEN [stripePM[p] EXCEPT !.state = "detached"]
                      ELSE stripePM[p]]
    /\ stripeDefault' = [stripeDefault EXCEPT ![c] = 0]

\* stripe.paymentMethods.attach / confirmCardSetup / confirmCardPayment with
\* setup_future_usage: the payment method becomes attached to the customer.
ProviderAttach(pm, c) ==
    /\ stripePM' = [stripePM EXCEPT ![pm] = [state |-> "attached", customer |-> c]]
    /\ UNCHANGED <<stripeCust, stripeDefault>>

\* stripe.paymentMethods.detach.
ProviderDetach(pm) ==
    /\ stripePM' = [stripePM EXCEPT ![pm].state = "detached"]
    /\ stripeDefault' = [c \in CustomerIds |->
                           IF stripeDefault[c] = pm THEN 0 ELSE stripeDefault[c]]
    /\ UNCHANGED stripeCust

\* ------------------------------------------------------- webhook events
NoEvent == [type |-> "", cust |-> 0, pm |-> 0, sfu |-> FALSE, email |-> ""]
Event(type, cust, pm, sfu, email) ==
    [type |-> type, cust |-> cust, pm |-> pm, sfu |-> sfu, email |-> email]

HandledTypes == {"setup_intent.succeeded", "payment_intent.succeeded",
                 "payment_intent.payment_failed", "payment_method.attached",
                 "customer.created", "customer.deleted"}

\* The events the provider may have emitted so far; it may deliver each of
\* them at any later time, in any order, any number of times.  A payment
\* method that is or was attached to a customer has payment_method.attached,
\* and a SetupIntent or a PaymentIntent with setup_future_usage may have
\* succeeded with it.  A PaymentIntent whose confirmation failed has
\* payment_intent.payment_failed.
EmittedEvents ==
    {Event("customer.created", c, 0, FALSE, stripeCust[c].email) :
        c \in {d \in CustomerIds : stripeCust[d].state # "none"}}
    \cup {Event("customer.deleted", c, 0, FALSE, stripeCust[c].email) :
        c \in {d \in CustomerIds : stripeCust[d].state = "deleted"}}
    \cup {Event("payment_method.attached", stripePM[p].customer, p, FALSE, "") :
        p \in {q \in PMIds : stripePM[q].state # "free"}}
    \cup {Event("setup_intent.succeeded", stripePM[p].customer, p, FALSE, "") :
        p \in {q \in PMIds : stripePM[q].state # "free"}}
    \cup {Event("payment_intent.succeeded", stripePM[p].customer, p, TRUE, "") :
        p \in {q \in PMIds : stripePM[q].state # "free"}}
    \cup {Event("payment_intent.succeeded", 0, 0, FALSE, ""),
          Event("payment_intent.payment_failed", 0, 0, FALSE, ""),
          Event("charge.succeeded", 0, 0, FALSE, "")}
    \cup {Event("payment_intent.payment_failed", intents[i].cust, intents[i].pm,
                intents[i].setup_future_usage, "") :
        i \in {j \in 1..Len(intents) : intents[j].last_payment_error # ""}}

\* ------------------------------------------------------ handlers in flight
Idle == [op |-> "idle", pc |-> "", cust |-> 0, pm |-> 0, isDefault |-> FALSE,
         email |-> "", ev |-> NoEvent, todo |-> <<>>, again |-> FALSE]
Request(op, pc, cust, pm, isDefault, email) ==
    [op |-> op, pc |-> pc, cust |-> cust, pm |-> pm, isDefault |-> isDefault,
     email |-> email, ev |-> NoEvent, todo |-> <<>>, again |-> FALSE]
\* A delivery in flight; "again" notes that the endpoint had already
\* answered 2xx to this very event when the delivery came in.
Delivery(pc, ev, todo, again) ==
    [op |-> "webhook", pc |-> pc, cust |-> ev.cust, pm |-> ev.pm,
     isDefault |-> FALSE, email |-> "", ev |-> ev, todo |-> todo, again |-> again]

\* A response: the route, the HTTP status, the ids it was about and, for
\* the webhook endpoint, the event and whether its handler threw inside.
Response(op, status, cust, pm, ev, err) ==
    [op |-> op, status |-> status, cust |-> cust, pm |-> pm, ev |-> ev, err |-> err]

\* Bookkeeping of deliveries: "acked" remembers the event the endpoint
\* answered 2xx most recently, the number of times in a row (counted up to
\* MaxStreak) its handler was applied, and whether the mirror is still as
\* that handler left it.
NoAck == [ev |-> NoEvent, n |-> 0, clean |-> FALSE]
MaxStreak == 2
Applied(ev) ==
    IF acked.ev = ev /\ acked.clean
    THEN [ev |-> ev, n |-> IF acked.n < MaxStreak THEN acked.n + 1 ELSE MaxStreak,
          clean |-> TRUE]
    ELSE [ev |-> ev, n |-> 1, clean |-> TRUE]
NotApplied(ev) == [ev |-> ev, n |-> 0, clean |-> FALSE]
Dirty == [acked EXCEPT !.clean = FALSE]

\* The save-card form and the off-session form before any submit.
NoForm == [pc |-> "idle", cust |-> 0, pm |-> 0]
NoPay == [pc |-> "idle", cust |-> 0, pm |-> 0, shown |-> 0]

\* No list request in progress.
NoListing == [pc |-> "idle", count |-> 0, odd |-> FALSE]

\* A new handler takes the lowest idle slot (the slots are interchangeable).
CanStart(s) == cur = 0 /\ req[s] = Idle /\ \A t \in 1..(s - 1) : req[t] # Idle

Init ==
    /\ customers = <<>>
    /\ paymentMethods = <<>>
    /\ stripeCust = [c \in CustomerIds |-> NoCustomer]
    /\ stripePM = [p \in PMIds |-> FreePM]
    /\ stripeDefault = [c \in CustomerIds |-> 0]
    /\ req = [s \in Slots |-> Idle]
    /\ cur = 0
    /\ last = Response("none", 0, 0, 0, NoEvent, "")
    /\ nReq = 0
    /\ nDeliv = 0
    /\ acked = NoAck
    /\ form = NoForm
    /\ processed = {}
    /\ nFail = 0
    /\ intents = <<>>
    /\ pay = NoPay
    /\ listReq = NoListing

\* --------------------------------------------- /api/customers (POST, DELETE)
\* POST up to the await of stripe.customers.create: validation, the local
\* lookup by email, and the provider's creation.  ok is whether the
\* provider call succeeds.
Customers_POST(s, email, name, ok) ==
    /\ CanStart(s)
    /\ nReq < MaxRequests
    /\ nReq' = nReq + 1
    /\ LET existingCustomer == CustomerDataStore_getByEmail(customers, email)
       IN  IF email = "" \/ name = ""
           THEN /\ last' = Response("customers.POST", 400, 0, 0, NoEvent, "")
                /\ UNCHANGED <<req, provider>>
           ELSE IF existingCustomer # <<>>
           THEN /\ last' = Response("customers.POST", 200, existingCustomer[1].id,
                                    0, NoEvent, "")
                /\ UNCHANGED <<req, provider>>
           ELSE IF ok /\ FreeCustomerIds # {}
           THEN /\ stripeCust' = [stripeCust EXCEPT ![NextCustomerId] =
                                    [state |-> "live", email |-> email]]
                /\ req' = [req EXCEPT ![s] =
                             Request("customers.POST", "save", NextCustomerId, 0,
                                     FALSE, email)]
                /\ UNCHANGED <<stripePM, stripeDefault, last>>
           ELSE /\ last' = Response("customers.POST", 500, 0, 0, NoEvent, "")
                /\ UNCHANGED <<req, provider>>
    /\ UNCHANGED <<mirror, cur, nDeliv, acked, others, delivery>>

\* POST after the await: the local save and the success response.
Customers_POST_save(s) ==
    /\ cur = 0
    /\ req[s].op = "customers.POST" /\ req[s].pc = "save"
    /\ customers' = CustomerDataStore_save(customers,
                        CustomerData(req[s].cust, req[s].email, "n"))
    /\ last' = Response("customers.POST", 200, req[s].cust, 0, NoEvent, "")
    /\ req' = [req EXCEPT ![s] = Idle]
    /\ acked' = Dirty
    /\ UNCHANGED <<paymentMethods, provider, cur, nReq, nDeliv, others, delivery>>

\* DELETE up to the await of stripe.customers.del.
Customers_DELETE(s, customerId, ok) ==
    /\ CanStart(s)
    /\ nReq < MaxRequests
    /\ nReq' = nReq + 1
    /\ IF customerId = 0
       THEN /\ last' = Response("customers.DELETE", 400, 0, 0, NoEvent, "")
            /\ UNCHANGED <<req, provider>>
       ELSE IF ok /\ IsLive(customerId)
       THEN /\ ProviderDeleteCustomer(customerId)
            /\ req' = [req EXCEPT ![s] =
                         Request("customers.DELETE", "delete", customerId, 0, FALSE, "")]
            /\ UNCHANGED last
       ELSE /\ last' = Response("customers.DELETE", 500, customerId, 0, NoEvent, "")
            /\ UNCHANGED <<req, provider>>
    /\ UNCHANGED <<mirror, cur, nDeliv, acked, others, delivery>>

\* DELETE after the await: only the Customer record is removed locally.
Customers_DELETE_delete(s) ==
    /\ cur = 0
    /\ req[s].op = "customers.DELETE" /\ req[s].pc = "delete"
    /\ customers' = CustomerDataStore_delete(customers, req[s].cust)
    /\ last' = Response("customers.DELETE", 200, req[s].cust, 0, NoEvent, "")
    /\ req' = [req EXCEPT ![s] = Idle]
    /\ acked' = Dirty
    /\ UNCHANGED <<paymentMethods, provider, cur, nReq, nDeliv, others, delivery>>

\* ------------------------------ /api/payment-methods (POST, PATCH, DELETE)
\* POST (attach) up to the await of stripe.paymentMethods.attach.
PaymentMethods_POST(s, paymentMethodId, customerId, isDefault, ok) ==
    /\ CanStart(s)
    /\ nReq < MaxRequests
    /\ nReq' = nReq + 1
    /\ IF paymentMethodId = 0 \/ customerId = 0
       THEN /\ last' = Response("payment-methods.POST", 400, customerId,
                                paymentMethodId, NoEvent, "")
            /\ UNCHANGED <<req, provider>>
       ELSE IF /\ ok
               /\ IsLive(customerId)
               /\ \/ stripePM[paymentMethodId].state = "free"
                  \/ IsAttachedTo(paymentMethodId, customerId)
       THEN /\ ProviderAttach(paymentMethodId, customerId)
            /\ req' = [req EXCEPT ![s] =
                         Request("payment-methods.POST", "save", customerId,
                                 paymentMethodId, isDefault, "")]
            /\ UNCHANGED last
       ELSE /\ last' = Response("payment-methods.POST", 500, customerId,
                                paymentMethodId, NoEvent, "")
            /\ UNCHANGED <<req, provider>>
    /\ UNCHANGED <<mirror, cur, nDeliv, acked, others, delivery>>

\* POST after the await, first write: PaymentMethodDataStore.save of the
\* record carrying isDefault as requested.  Without isDefault the handler
\* answers; with it the handler goes on to setAsDefault in the same segment.
PaymentMethods_POST_save(s) ==
    /\ cur = 0
    /\ req[s].op = "payment-methods.POST" /\ req[s].pc = "save"
    /\ paymentMethods' = PaymentMethodDataStore_save(paymentMethods,
            SavedPaymentMethod(StripePaymentMethod(req[s].pm), req[s].cust,
                               req[s].isDefault))
    /\ acked' = Dirty
    /\ IF req[s].isDefault
       THEN /\ req' = [req EXCEPT ![s].pc = "setAsDefault"]
            /\ cur' = s
            /\ UNCHANGED last
       ELSE /\ req' = [req EXCEPT ![s] = Idle]
            /\ last' = Response("payment-methods.POST", 200, req[s].cust,
                                req[s].pm, NoEvent, "")
            /\ UNCHANGED cur
    /\ UNCHANGED <<customers, provider, nReq, nDeliv, others, delivery>>

\* POST, second write: PaymentMethodDataStore.setAsDefault, then the response.
PaymentMethods_POST_setAsDefault(s) ==
    /\ cur = s
    /\ req[s].op = "payment-methods.POST" /\ req[s].pc = "setAsDefault"
    /\ paymentMethods' = PaymentMethodDataStore_setAsDefault(paymentMethods,
                              req[s].pm, req[s].cust)
    /\ last' = Response("payment-methods.POST", 200, req[s].cust, req[s].pm,
                        NoEvent, "")
    /\ req' = [req EXCEPT ![s] = Idle]
    /\ cur' = 0
    /\ acked' = Dirty
    /\ UNCHANGED <<customers, provider, nReq, nDeliv, others, delivery>>

\* PATCH up to the await of stripe.customers.update.
PaymentMethods_PATCH(s, paymentMethodId, customerId, action, ok) ==
    /\ CanStart(s)
    /\ nReq < MaxRequests
    /\ nReq' = nReq + 1
    /\ IF paymentMethodId = 0 \/ customerId = 0
       THEN /\ last' = Response("payment-methods.PATCH", 400, customerId,
                                paymentMethodId, NoEvent, "")
            /\ UNCHANGED <<req, provider>>
       ELSE IF action # "set_default"
       THEN /\ last' = Response("payment-methods.PATCH", 400, customerId,
                                paymentMethodId, NoEvent, "")
            /\ UNCHANGED <<req, provider>>
       ELSE IF ok /\ IsLive(customerId) /\ IsAttachedTo(paymentMethodId, customerId)
       THEN /\ stripeDefault' = [stripeDefault EXCEPT ![customerId] = paymentMethodId]
            /\ req' = [req EXCEPT ![s] =
                         Request("payment-methods.PATCH", "setAsDefault", customerId,
                                 paymentMethodId, FALSE, "")]
            /\ UNCHANGED <<stripeCust, stripePM, last>>
       ELSE /\ last' = Response("payment-methods.PATCH", 500, customerId,
                                paymentMethodId, NoEvent, "")
            /\ UNCHANGED <<req, provider>>
    /\ UNCHANGED <<mirror, cur, nDeliv, acked, others, delivery>>

\* PATCH after the await: PaymentMethodDataStore.setAsDefault and the response.
PaymentMethods_PATCH_setAsDefault(s) ==
    /\ cur = 0
    /\ req[s].op = "payment-methods.PATCH" /\ req[s].pc = "setAsDefault"
    /\ paymentMethods' = PaymentMethodDataStore_setAsDefault(paymentMethods,
                              req[s].pm, req[s].cust)
    /\ last' = Response("payment-methods.PATCH", 200, req[s].cust, req[s].pm,
                        NoEvent, "")
    /\ req' = [req EXCEPT ![s] = Idle]
    /\ acked' = Dirty
    /\ UNCHANGED <<customers, provider, cur, nReq, nDeliv, others, delivery>>

\* DELETE (detach) up to the await of stripe.paymentMethods.detach.
\* Variant that removes the record from the mirror before it calls the
\* provider.
PaymentMethods_DELETE_LocalFirst(s, paymentMethodId, ok) ==
    /\ CanStart(s)
    /\ nReq < MaxRequests
    /\ nReq' = nReq + 1
    /\ IF paymentMethodId = 0
       THEN /\ last' = Response("payment-methods.DELETE", 400, 0, 0, NoEvent, "")
            /\ UNCHANGED <<req, provider, mirror>>
       ELSE IF ok /\ stripePM[paymentMethodId].state = "attached"
       THEN /\ ProviderDetach(paymentMethodId)
            /\ req' = [req EXCEPT ![s] =
                         Request("payment-methods.DELETE", "delete", 0,
                                 paymentMethodId, FALSE, "")]
            /\ UNCHANGED <<last, mirror>>
       ELSE /\ paymentMethods' = PaymentMethodDataStore_delete(paymentMethods,
                                                               paymentMethodId)
            /\ last' = Response("payment-methods.DELETE", 500, 0, paymentMethodId,
                                NoEvent, "")
            /\ UNCHANGED <<req, provider, customers>>
    /\ UNCHANGED <<cur, nDeliv, acked, others, delivery>>

PaymentMethods_DELETE(s, paymentMethodId, ok) ==
    /\ CanStart(s)
    /\ nReq < MaxRequests
    /\ nReq' = nReq + 1
    /\ IF paymentMethodId = 0
       THEN /\ last' = Response("payment-methods.DELETE", 400, 0, 0, NoEvent, "")
            /\ UNCHANGED <<req, provider>>
       ELSE IF ok /\ stripePM[paymentMethodId].state = "attached"
       THEN /\ ProviderDetach(paymentMethodId)
            /\ req' = [req EXCEPT ![s] =
                         Request("payment-methods.DELETE", "delete", 0,
                                 paymentMethodId, FALSE, "")]
            /\ UNCHANGED last
       ELSE /\ last' = Response("payment-methods.DELETE", 500, 0, paymentMethodId,
                                NoEvent, "")
            /\ UNCHANGED <<req, provider>>
    /\ UNCHANGED <<mirror, cur, nDeliv, acked, others, delivery>>

\* DELETE after the await: PaymentMethodDataStore.delete and the response.
PaymentMethods_DELETE_delete(s) ==
    /\ cur = 0
    /\ req[s].op = "payment-methods.DELETE" /\ req[s].pc = "delete"
    /\ paymentMethods' = PaymentMethodDataStore_delete(paymentMethods, req[s].pm)
    /\ last' = Response("payment-methods.DELETE", 200, 0, req[s].pm, NoEvent, "")
    /\ req' = [req EXCEPT ![s] = Idle]
    /\ acked' = Dirty
    /\ UNCHANGED <<customers, provider, cur, nReq, nDeliv, others, delivery>>

\* ------------------------------------------- client-side confirmation
\* stripe.confirmCardSetup on a SetupIntent of customer c, or
\* stripe.confirmCardPayment on a PaymentIntent of c created with
\* setup_future_usage, with the card typed into the form: the provider
\* creates payment method pm and attaches it to c.
ConfirmCard(pm, c) ==
    /\ cur = 0
    /\ nReq < MaxRequests
    /\ nReq' = nReq + 1
    /\ IsLive(c) /\ stripePM[pm].state = "free"
    /\ ProviderAttach(pm, c)
    /\ UNCHANGED <<mirror, req, cur, last, nDeliv, acked, others, delivery>>

\* ----------------------------------------------------- /api/webhooks (POST)
\* handlePaymentMethodAttached: the mirror content after the handler.
handlePaymentMethodAttached(list, ev) ==
    IF ev.cust # 0
    THEN PaymentMethodDataStore_save(list,
             SavedPaymentMethod(StripePaymentMethod(ev.pm), ev.cust, FALSE))
    ELSE list

\* handleCustomerCreated: the mirror content after the handler.
handleCustomerCreated(list, ev) ==
    CustomerDataStore_save(list, CustomerData(ev.cust, OrString(ev.email, ""), "n"))

\* handlePaymentIntentFailed: the mirror content after the handler, which
\* logs the failure.
\* Variant that saves the card of an intent created with setup_future_usage.
handlePaymentIntentFailed_SavesCard(list, ev) ==
    IF ev.sfu /\ ev.pm # 0 /\ ev.cust # 0
    THEN PaymentMethodDataStore_save(list,
             SavedPaymentMethod(StripePaymentMethod(ev.pm), ev.cust, FALSE))
    ELSE list

handlePaymentIntentFailed(list, ev) == list

\* Whether handleSetupIntentSucceeded / handlePaymentIntentSucceeded look
\* the payment method up at the provider.
NeedsRetrieve(ev) ==
    \/ ev.type = "setup_intent.succeeded" /\ ev.pm # 0 /\ ev.cust # 0
    \/ ev.type = "payment_intent.succeeded" /\ ev.sfu /\ ev.pm # 0 /\ ev.cust # 0

\* The ids handleCustomerDeleted is going to delete, in the order of the list
\* PaymentMethodDataStore.getByCustomerId returned.
CascadeIds(list, customerId) ==
    LET found == PaymentMethodDataStore_getByCustomerId(list, customerId)
    IN  [i \in 1..Len(found) |-> found[i].id]

\* The endpoint answers 200 {received: true}.
Acknowledge(ev, err) ==
    /\ last' = Response("webhook", 200, ev.cust, ev.pm, ev, err)
    /\ acked' = IF err = "" THEN Applied(ev) ELSE NotApplied(ev)

\* The check of the stripe-signature header: the header is there and
\* stripe.webhooks.constructEvent accepts it.
\* Variant that only checks that the header is there.
SignatureAccepted_PresenceOnly(sig) == sig # "missing"

SignatureAccepted(sig) == sig # "missing" /\ sig = "valid"

\* The default branch of the dispatch: the type is logged as unhandled.
\* Variant whose default branch throws, so that the endpoint answers 500.
UnhandledEventType_Throws(ev) ==
    /\ last' = Response("webhook", 500, 0, 0, ev, "unhandled")
    /\ acked' = NotApplied(ev)
    /\ UNCHANGED <<mirror, req, cur>>

UnhandledEventType(ev) ==
    /\ Acknowledge(ev, "")
    /\ UNCHANGED <<mirror, req, cur>>

\* POST from the signature check to the first await of the handler (or to
\* the response, for the handlers that do not await).  sig is what the
\* stripe-signature header holds.
Webhook_receive(s, ev, sig) ==
    /\ CanStart(s)
    /\ ev \in EmittedEvents
    /\ IF ~SignatureAccepted(sig)
       THEN /\ last' = Response("webhook", 400, 0, 0, NoEvent, sig)
            /\ UNCHANGED <<mirror, req, cur, acked>>
       ELSE IF NeedsRetrieve(ev)
       THEN /\ req' = [req EXCEPT ![s] = Delivery("retrieve", ev, <<>>, acked.ev = ev)]
            /\ UNCHANGED <<mirror, cur, last, acked>>
       ELSE IF ev.type = "payment_method.attached"
       THEN /\ paymentMethods' = handlePaymentMethodAttached(paymentMethods, ev)
            /\ Acknowledge(ev, "")
            /\ UNCHANGED <<customers, req, cur>>
       ELSE IF ev.type = "customer.created"
       THEN /\ customers' = handleCustomerCreated(customers, ev)
            /\ Acknowledge(ev, "")
            /\ UNCHANGED <<paymentMethods, req, cur>>
       ELSE IF ev.type = "customer.deleted"
       THEN /\ customers' = CustomerDataStore_delete(customers, ev.cust)
            /\ IF CascadeIds(paymentMethods, ev.cust) = <<>>
               THEN /\ Acknowledge(ev, "")
                    /\ UNCHANGED <<req, cur>>
               ELSE /\ req' = [req EXCEPT ![s] =
                                 Delivery("cascade", ev,
                                          CascadeIds(paymentMethods, ev.cust),
                                          acked.ev = ev)]
                    /\ cur' = s
                    /\ acked' = Dirty
                    /\ UNCHANGED last
            /\ UNCHANGED paymentMethods
       ELSE IF ev.type = "payment_intent.payment_failed"
       THEN /\ paymentMethods' = handlePaymentIntentFailed(paymentMethods, ev)
            /\ Acknowledge(ev, "")
            /\ UNCHANGED <<customers, req, cur>>
       ELSE IF ev.type \in HandledTypes
       THEN /\ Acknowledge(ev, "")
            /\ UNCHANGED <<mirror, req, cur>>
       ELSE UnhandledEventType(ev)
    /\ UNCHANGED <<provider, nReq, others>>

\* A delivery, at any time and of any event emitted so far.
Webhook_POST(s, ev, sig) ==
    /\ nDeliv < MaxDeliveries
    /\ nDeliv' = nDeliv + 1
    /\ Webhook_receive(s, ev, sig)
    /\ UNCHANGED delivery

\* handleSetupIntentSucceeded / handlePaymentIntentSucceeded after the await
\* of stripe.paymentMethods.retrieve.  ok is whether the lookup succeeded;
\* when it threw, the handler's own catch logs the error and returns.
Webhook_lookup(s, ok) ==
    /\ cur = 0
    /\ req[s].op = "webhook" /\ req[s].pc = "retrieve"
    /\ IF ok
       THEN /\ paymentMethods' = PaymentMethodDataStore_save(paymentMethods,
                    SavedPaymentMethod(StripePaymentMethod(req[s].ev.pm),
                                       req[s].ev.cust, FALSE))
            /\ Acknowledge(req[s].ev, "")
       ELSE /\ Acknowledge(req[s].ev, "retrieve_failed")
            /\ UNCHANGED paymentMethods
    /\ req' = [req EXCEPT ![s] = Idle]
    /\ UNCHANGED <<customers, provider, cur, nReq, nDeliv, others>>

Webhook_retrieved(s, ok) ==
    /\ Webhook_lookup(s, ok)
    /\ UNCHANGED delivery

\* handleCustomerDeleted, one PaymentMethodDataStore.delete of the forEach.
Webhook_cascade(s) ==
    /\ cur = s
    /\ req[s].op = "webhook" /\ req[s].pc = "cascade"
    /\ paymentMethods' = PaymentMethodDataStore_delete(paymentMethods,
                                                       Head(req[s].todo))
    /\ IF Tail(req[s].todo) = <<>>
       THEN /\ Acknowledge(req[s].ev, "")
            /\ req' = [req EXCEPT ![s] = Idle]
            /\ cur' = 0
       ELSE /\ req' = [req EXCEPT ![s].todo = Tail(req[s].todo)]
            /\ UNCHANGED <<cur, last, acked>>
    /\ UNCHANGED <<customers, provider, nReq, nDeliv, others, delivery>>

\* ------------------------------------------------------------ specification
Next ==
    \/ \E s \in Slots, email \in Emails \cup {""}, name \in {"", "n"}, ok \in BOOLEAN :
          Customers_POST(s, email, name, ok)
    \/ \E s \in Slots : Customers_POST_save(s)
    \/ \E s \in Slots, c \in CustomerIds \cup {0}, ok \in BOOLEAN :
          Customers_DELETE(s, c, ok)
    \/ \E s \in Slots : Customers_DELETE_delete(s)
    \/ \E s \in Slots, pm \in PMIds \cup {0}, c \in CustomerIds \cup {0},
          isDefault \in BOOLEAN, ok \in BOOLEAN :
          PaymentMethods_POST(s, pm, c, isDefault, ok)
    \/ \E s \in Slots : PaymentMethods_POST_save(s)
    \/ \E s \in Slots : PaymentMethods_POST_setAsDefault(s)
    \/ \E s \in Slots, pm \in PMIds \cup {0}, c \in CustomerIds \cup {0},
          action \in {"set_default", "other"}, ok \in BOOLEAN :
          PaymentMethods_PATCH(s, pm, c, action, ok)
    \/ \E s \in Slots : PaymentMethods_PATCH_setAsDefault(s)
    \/ \E s \in Slots, pm \in PMIds \cup {0}, ok \in BOOLEAN :
          PaymentMethods_DELETE(s, pm, ok)
    \/ \E s \in Slots : PaymentMethods_DELETE_delete(s)
    \/ \E pm \in PMIds, c \in CustomerIds : ConfirmCard(pm, c)
    \/ \E s \in Slots, ev \in EmittedEvents, sig \in {"valid", "invalid", "missing"} :
          Webhook_POST(s, ev, sig)
    \/ \E s \in Slots, ok \in BOOLEAN : Webhook_retrieved(s, ok)
    \/ \E s \in Slots : Webhook_cascade(s)

Spec == Init /\ [][Next]_vars

\* The same handlers, one at a time: a handler starts only when no other is
\* in flight.
NextSeq ==
    \/ \E email \in Emails \cup {""}, name \in {"", "n"}, ok \in BOOLEAN :
          Customers_POST(1, email, name, ok)
    \/ Customers_POST_save(1)
    \/ \E c \in CustomerIds \cup {0}, ok \in BOOLEAN : Customers_DELETE(1, c, ok)
    \/ Customers_DELETE_delete(1)
    \/ \E pm \in PMIds \cup {0}, c \in CustomerIds \cup {0},
          isDefault \in BOOLEAN, ok \in BOOLEAN :
          PaymentMethods_POST(1, pm, c, isDefault, ok)
    \/ PaymentMethods_POST_save(1)
    \/ PaymentMethods_POST_setAsDefault(1)
    \/ \E pm \in PMIds \cup {0}, c \in CustomerIds \cup {0},
          action \in {"set_default", "other"}, ok \in BOOLEAN :
          PaymentMethods_PATCH(1, pm, c, action, ok)
    \/ PaymentMethods_PATCH_setAsDefault(1)
    \/ \E pm \in PMIds \cup {0}, ok \in BOOLEAN : PaymentMethods_DELETE(1, pm, ok)
    \/ PaymentMethods_DELETE_delete(1)
    \/ \E pm \in PMIds, c \in CustomerIds : ConfirmCard(pm, c) /\ req[1] = Idle
    \/ \E ev \in EmittedEvents, sig \in {"valid", "invalid", "missing"} :
          Webhook_POST(1, ev, sig)
    \/ \E ok \in BOOLEAN : Webhook_retrieved(1, ok)
    \/ Webhook_cascade(1)

SpecSeq == Init /\ [][NextSeq]_vars

\* The client-facing requests that write to the provider and to the mirror,
\* one handler at a time, without deliveries.
NextApi ==
    \/ \E email \in Emails \cup {""}, name \in {"", "n"}, ok \in BOOLEAN :
          Customers_POST(1, email, name, ok)
    \/ Customers_POST_save(1)
    \/ \E c \in CustomerIds \cup {0}, ok \in BOOLEAN : Customers_DELETE(1, c, ok)
    \/ Customers_DELETE_delete(1)
    \/ \E pm \in PMIds \cup {0}, c \in CustomerIds \cup {0},
          isDefault \in BOOLEAN, ok \in BOOLEAN :
          PaymentMethods_POST(1, pm, c, isDefault, ok)
    \/ PaymentMethods_POST_save(1)
    \/ PaymentMethods_POST_setAsDefault(1)
    \/ \E pm \in PMIds \cup {0}, c \in CustomerIds \cup {0},
          action \in {"set_default", "other"}, ok \in BOOLEAN :
          PaymentMethods_PATCH(1, pm, c, action, ok)
    \/ PaymentMethods_PATCH_setAsDefault(1)
    \/ \E pm \in PMIds \cup {0}, ok \in BOOLEAN : PaymentMethods_DELETE(1, pm, ok)
    \/ PaymentMethods_DELETE_delete(1)

SpecApi == Init /\ [][NextApi]_vars

\* Create-customer requests, concurrently, with the cards the customers
\* they create get at the provider and the requests that attach them.
NextCustomers ==
    \/ \E s \in Slots, email \in Emails \cup {""}, name \in {"", "n"}, ok \in BOOLEAN :
          Customers_POST(s, email, name, ok)
    \/ \E s \in Slots : Customers_POST_save(s)
    \/ \E pm \in PMIds, c \in CustomerIds : ConfirmCard(pm, c)
    \/ \E s \in Slots, pm \in PMIds, c \in CustomerIds, ok \in BOOLEAN :
          PaymentMethods_POST(s, pm, c, FALSE, ok)
    \/ \E s \in Slots : PaymentMethods_POST_save(s)

SpecCustomers == Init /\ [][NextCustomers]_vars

\* ------------------------------------------------- the save-card flow
\* /api/setup-intent (POST): the status the route answers with.  ok is
\* whether stripe.setupIntents.create succeeds for a live customer;
\* customers.retrieve throws for an unknown id and returns the deleted
\* object for a deleted one, for which the creation then throws.
SetupIntent_POST(customerId, ok) ==
    IF customerId = 0 THEN 400
    ELSE IF stripeCust[customerId].state = "none" THEN 404
    ELSE IF stripeCust[customerId].state = "live" /\ ok THEN 200
    ELSE 500

\* SetupCardForm.handleSubmit up to the answer of /api/setup-intent.
SetupCardForm_handleSubmit(customerId, ok) ==
    /\ form.pc = "idle"
    /\ customerId # 0
    /\ form' = IF SetupIntent_POST(customerId, ok) = 200
               THEN [pc |-> "confirming", cust |-> customerId, pm |-> 0]
               ELSE [pc |-> "error", cust |-> customerId, pm |-> 0]
    /\ last' = Response("setup-intent.POST", SetupIntent_POST(customerId, ok),
                        customerId, 0, NoEvent, "")
    /\ UNCHANGED <<mirror, provider, req, cur, nReq, nDeliv, acked, intents, pay,
                   delivery, listReq>>

\* stripe.confirmCardSetup at the provider: on success the SetupIntent
\* succeeds and the new payment method pm is attached to the customer.
SetupCardForm_confirmCardSetup(pm, ok) ==
    /\ form.pc = "confirming"
    /\ IF ok /\ IsLive(form.cust) /\ stripePM[pm].state = "free"
       THEN /\ ProviderAttach(pm, form.cust)
            /\ form' = [form EXCEPT !.pc = "confirmed", !.pm = pm]
       ELSE /\ form' = [form EXCEPT !.pc = "error"]
            /\ UNCHANGED provider
    /\ UNCHANGED <<mirror, req, cur, last, nReq, nDeliv, acked, intents, pay,
                   delivery, listReq>>

\* handleSubmit after confirmCardSetup resolved with status succeeded: the
\* form shows "Card saved successfully!" and calls onSuccess.
SetupCardForm_onSuccess ==
    /\ form.pc = "confirmed"
    /\ form' = [form EXCEPT !.pc = "success"]
    /\ UNCHANGED <<mirror, provider, req, cur, last, nReq, nDeliv, acked, intents,
                   pay, delivery, listReq>>

\* The events the provider emits in the save-card flow.
SaveEvents ==
    {ev \in EmittedEvents :
        ev.type \in {"customer.created", "setup_intent.succeeded",
                     "payment_method.attached"}}

\* How often the provider's lookup of a payment method may fail.
MaxRetrieveFailures == 1

\* The provider delivers an event it holds no 2xx answer for, with a valid
\* signature, and does not start a second delivery while one is unanswered.
Provider_deliver(s, ev) ==
    /\ ev \in SaveEvents \ processed
    /\ \A t \in Slots : req[t].ev # ev
    /\ Webhook_receive(s, ev, "valid")
    /\ processed' = IF req' = req /\ last'.status \in 200..299
                    THEN processed \cup {ev}
                    ELSE processed
    /\ UNCHANGED <<nDeliv, nFail>>

\* The endpoint's answer to a delivery that looked the payment method up.
Provider_answered(s, ok) ==
    /\ ok \/ nFail < MaxRetrieveFailures
    /\ Webhook_lookup(s, ok)
    /\ nFail' = IF ok THEN nFail ELSE nFail + 1
    /\ processed' = IF last'.status \in 200..299
                    THEN processed \cup {req[s].ev}
                    ELSE processed

NextSave ==
    \/ \E s \in Slots, email \in Emails \cup {""}, name \in {"", "n"}, ok \in BOOLEAN :
          Customers_POST(s, email, name, ok)
    \/ \E s \in Slots : Customers_POST_save(s)
    \/ \E c \in CustomerIds \cup {0}, ok \in BOOLEAN : SetupCardForm_handleSubmit(c, ok)
    \/ \E pm \in PMIds, ok \in BOOLEAN : SetupCardForm_confirmCardSetup(pm, ok)
    \/ SetupCardForm_onSuccess
    \/ \E s \in Slots, ev \in SaveEvents : Provider_deliver(s, ev)
    \/ \E s \in Slots, ok \in BOOLEAN : Provider_answered(s, ok)

SpecSave == Init /\ [][NextSave]_vars

\* The provider goes on delivering setup_intent.succeeded while it holds no
\* 2xx answer for it; a handler that awaits the provider is resumed, so the
\* endpoint answers every delivery; the form goes on.
DeliverSetupIntentSucceeded ==
    \E s \in Slots, ev \in SaveEvents :
        ev.type = "setup_intent.succeeded" /\ Provider_deliver(s, ev)

FairSpecSave ==
    /\ SpecSave
    /\ WF_vars(\E s \in Slots : Customers_POST_save(s))
    /\ WF_vars(DeliverSetupIntentSucceeded)
    /\ WF_vars(\E s \in Slots, ok \in BOOLEAN : Provider_answered(s, ok))
    /\ WF_vars(\E pm \in PMIds, ok \in BOOLEAN : SetupCardForm_confirmCardSetup(pm, ok))
    /\ WF_vars(SetupCardForm_onSuccess)

\* ------------------------------------------- the off-session charge flow
\* PaymentIntents a behaviour may create at the provider.
MaxIntents == 3

\* What stripe.paymentIntents.create with confirm: true and off_session:
\* true may do with a saved card.
ConfirmOutcomes == {"succeeded", "requires_action", "authentication_required",
                    "card_declined", "error"}

\* /api/payment-intent (POST): the HTTP status, the status of the
\* PaymentIntent the provider is left with ("" when none was created), the
\* status in the response data ("" when the response has no data) and the
\* error message.  outcome is what the provider does with the creation.
PaymentIntentAnswer(status, created, data, error) ==
    [status |-> status, created |-> created, data |-> data, error |-> error]
\* The validation of body.amount (0 stands for an amount that is left out).
\* Variant that only rejects a missing or zero amount.
InvalidAmount_ZeroOnly(amount) == amount = 0

InvalidAmount(amount) == amount = 0 \/ amount <= 0

\* POST's comparison of the retrieved payment method's customer with
\* body.customerId.
\* Variant that does not compare the two.
pmCustomerMatches_Unchecked(paymentMethodId, customerId) == TRUE

pmCustomerMatches(paymentMethodId, customerId) ==
    IsAttachedTo(paymentMethodId, customerId)

PaymentIntent_POST(amount, customerId, paymentMethodId, offSession, outcome) ==
    IF InvalidAmount(amount)
    THEN PaymentIntentAnswer(400, "", "", "Valid amount is required")
    ELSE IF customerId # 0 /\ ~IsLive(customerId)
    THEN PaymentIntentAnswer(404, "", "", "customer")
    ELSE IF paymentMethodId # 0 /\ stripePM[paymentMethodId].state = "free"
    THEN PaymentIntentAnswer(404, "", "", "payment_method")
    ELSE IF paymentMethodId # 0 /\ customerId # 0
            /\ ~pmCustomerMatches(paymentMethodId, customerId)
    THEN PaymentIntentAnswer(400, "", "", "not attached")
    ELSE IF outcome = "error"
    THEN PaymentIntentAnswer(500, "", "", "Failed to create PaymentIntent")
    ELSE IF ~(paymentMethodId # 0 /\ offSession)
    THEN IF paymentMethodId = 0
         THEN PaymentIntentAnswer(200, "requires_payment_method",
                                  "requires_payment_method", "")
         ELSE PaymentIntentAnswer(200, "requires_confirmation",
                                  "requires_confirmation", "")
    ELSE IF outcome \in {"succeeded", "requires_action"}
    THEN PaymentIntentAnswer(200, outcome, outcome, "")
    ELSE PaymentIntentAnswer(402, "requires_payment_method", "", outcome)

\* POST's paymentIntentParams: what stripe.paymentIntents.create is called
\* with.  metadata keeps what the request asked for.
paymentIntentParams(customerId, paymentMethodId, saveCard, offSession) ==
    [customer |-> customerId,
     payment_method |-> paymentMethodId,
     confirm |-> paymentMethodId # 0 /\ offSession,
     off_session |-> paymentMethodId # 0 /\ offSession,
     setup_future_usage |-> saveCard /\ customerId # 0,
     metadata |-> [save_card |-> saveCard, off_session |-> offSession]]

\* The provider's PaymentIntents after the request: the new one keeps the
\* parameters it was created with, its status and the error of a failed
\* confirmation.
IntentsAfter(answer, params) ==
    IF answer.created = ""
    THEN intents
    ELSE Append(intents, [cust |-> params.customer, pm |-> params.payment_method,
                          status |-> answer.created,
                          confirm |-> params.confirm,
                          off_session |-> params.off_session,
                          setup_future_usage |-> params.setup_future_usage,
                          metadata |-> params.metadata,
                          last_payment_error |->
                              IF answer.status = 402 THEN answer.error ELSE ""])

\* /api/payment-intent (POST) as a request of any caller: the body may hold
\* any combination of its fields (0 stands for an id that is left out).
PaymentIntents_POST(amount, customerId, paymentMethodId, saveCard, offSession, outcome) ==
    LET answer == PaymentIntent_POST(amount, customerId, paymentMethodId,
                                     offSession, outcome)
        params == paymentIntentParams(customerId, paymentMethodId, saveCard,
                                      offSession)
    IN  /\ cur = 0
        /\ nReq < MaxRequests
        /\ nReq' = nReq + 1
        /\ Len(intents) < MaxIntents
        /\ intents' = IntentsAfter(answer, params)
        /\ last' = Response("payment-intent.POST", answer.status, customerId,
                            paymentMethodId, NoEvent, answer.error)
        /\ UNCHANGED <<mirror, provider, req, cur, nDeliv, acked, form, pay,
                       delivery, listReq>>

\* OffSessionPayment.handleSubmit with the answer of /api/payment-intent.
\* "shown" is the intent id in the authentication link (0 for 'pi_mock').
OffSessionPayment_handleSubmit(amount, customerId, selectedPaymentMethodId, outcome) ==
    LET answer == PaymentIntent_POST(amount, customerId, selectedPaymentMethodId,
                                     TRUE, outcome)
    IN  /\ pay.pc = "idle"
        /\ Len(intents) < MaxIntents
        /\ customerId # 0 /\ selectedPaymentMethodId # 0
        /\ amount > 0
        /\ intents' = IntentsAfter(answer, paymentIntentParams(customerId,
                                       selectedPaymentMethodId, FALSE, TRUE))
        /\ pay' =
             IF answer.data = "succeeded"
             THEN [pc |-> "succeeded", cust |-> customerId,
                   pm |-> selectedPaymentMethodId, shown |-> 0]
             ELSE IF answer.data = "requires_action"
             THEN [pc |-> "awaitingAuthentication", cust |-> customerId,
                   pm |-> selectedPaymentMethodId, shown |-> Len(intents')]
             ELSE IF answer.status = 402 /\ answer.error = "authentication_required"
             THEN [pc |-> "awaitingAuthentication", cust |-> customerId,
                   pm |-> selectedPaymentMethodId, shown |-> 0]
             ELSE [pc |-> "error", cust |-> customerId,
                   pm |-> selectedPaymentMethodId, shown |-> 0]
        /\ last' = Response("payment-intent.POST", answer.status, customerId,
                            selectedPaymentMethodId, NoEvent, answer.error)
        /\ UNCHANGED <<mirror, provider, req, cur, nReq, nDeliv, acked, form, delivery,
                       listReq>>

\* OffSessionPayment.handleRetryPayment: the click on "Retry Payment", which
\* is offered while the authentication link is shown.
OffSessionPayment_handleRetryPayment ==
    /\ pay.pc = "awaitingAuthentication"
    /\ pay' = [pay EXCEPT !.pc = "retrying", !.shown = 0]
    /\ UNCHANGED <<mirror, provider, req, cur, last, nReq, nDeliv, acked, form,
                   intents, delivery, listReq>>

\* handleRetryPayment's timer callback with the answer of /api/payment-intent.
OffSessionPayment_retryTimeout(amount, outcome) ==
    LET answer == PaymentIntent_POST(amount, pay.cust, pay.pm, TRUE, outcome)
    IN  /\ pay.pc = "retrying"
        /\ Len(intents) < MaxIntents
        /\ intents' = IntentsAfter(answer, paymentIntentParams(pay.cust, pay.pm, FALSE, TRUE))
        /\ pay' = [pay EXCEPT !.pc = IF answer.status = 200 /\ answer.data = "succeeded"
                                     THEN "succeeded" ELSE "error"]
        /\ last' = Response("payment-intent.POST", answer.status, pay.cust, pay.pm,
                            NoEvent, answer.error)
        /\ UNCHANGED <<mirror, provider, req, cur, nReq, nDeliv, acked, form, delivery,
                       listReq>>

\* The customer completes the authentication the provider asked for: the
\* PaymentIntent that required action succeeds.
Customer_authenticates(i) ==
    /\ i \in 1..Len(intents)
    /\ intents[i].status = "requires_action"
    /\ intents' = [intents EXCEPT ![i].status = "succeeded"]
    /\ UNCHANGED <<mirror, provider, req, cur, last, nReq, nDeliv, acked, form, pay,
                   delivery, listReq>>

NextCharge ==
    \/ \E email \in Emails \cup {""}, name \in {"", "n"}, ok \in BOOLEAN :
          Customers_POST(1, email, name, ok)
    \/ Customers_POST_save(1)
    \/ \E pm \in PMIds, c \in CustomerIds : ConfirmCard(pm, c) /\ req[1] = Idle
    \/ \E amount \in {0, 25}, c \in CustomerIds, pm \in PMIds, outcome \in ConfirmOutcomes :
          OffSessionPayment_handleSubmit(amount, c, pm, outcome)
    \/ OffSessionPayment_handleRetryPayment
    \/ \E amount \in {0, 25}, outcome \in ConfirmOutcomes :
          OffSessionPayment_retryTimeout(amount, outcome)
    \/ \E i \in 1..MaxIntents : Customer_authenticates(i)

SpecCharge == Init /\ [][NextCharge]_vars

\* The webhook endpoint with the requests that make the provider emit
\* events, one handler at a time.
NextHook ==
    \/ \E email \in Emails \cup {""}, name \in {"", "n"}, ok \in BOOLEAN :
          Customers_POST(1, email, name, ok)
    \/ Customers_POST_save(1)
    \/ \E c \in CustomerIds \cup {0}, ok \in BOOLEAN : Customers_DELETE(1, c, ok)
    \/ Customers_DELETE_delete(1)
    \/ \E pm \in PMIds, c \in CustomerIds : ConfirmCard(pm, c) /\ req[1] = Idle
    \/ \E ev \in EmittedEvents, sig \in {"valid", "invalid", "missing"} :
          Webhook_POST(1, ev, sig)
    \/ \E ok \in BOOLEAN : Webhook_retrieved(1, ok)
    \/ Webhook_cascade(1)

SpecHook == Init /\ [][NextHook]_vars

\* ------------------------------------------------ set-default requests
\* The state after a customer was created and two payment methods were
\* attached to it without isDefault: POST /api/customers, then POST
\* /api/payment-methods twice.
InitLoaded ==
    /\ customers = CustomerDataStore_save(<<>>, CustomerData(1, "a@x", "n"))
    /\ paymentMethods =
         PaymentMethodDataStore_save(
             PaymentMethodDataStore_save(<<>>,
                 SavedPaymentMethod(StripePaymentMethod(1), 1, FALSE)),
             SavedPaymentMethod(StripePaymentMethod(2), 1, FALSE))
    /\ stripeCust = [c \in CustomerIds |->
                       IF c = 1 THEN [state |-> "live", email |-> "a@x"]
                       ELSE NoCustomer]
    /\ stripePM = [p \in PMIds |-> [state |-> "attached", customer |-> 1]]
    /\ stripeDefault = [c \in CustomerIds |-> 0]
    /\ req = [s \in Slots |-> Idle]
    /\ cur = 0
    /\ last = Response("payment-methods.POST", 200, 1, 2, NoEvent, "")
    /\ nReq = 0
    /\ nDeliv = 0
    /\ acked = NoAck
    /\ form = NoForm
    /\ processed = {}
    /\ nFail = 0
    /\ intents = <<>>
    /\ pay = NoPay
    /\ listReq = NoListing

\* Set-default requests, concurrently.
NextDefault ==
    \/ \E s \in Slots, pm \in PMIds \cup {0}, c \in CustomerIds \cup {0},
          action \in {"set_default", "other"}, ok \in BOOLEAN :
          PaymentMethods_PATCH(s, pm, c, action, ok)
    \/ \E s \in Slots : PaymentMethods_PATCH_setAsDefault(s)

SpecDefault == InitLoaded /\ [][NextDefault]_vars

\* Requests to /api/payment-intent by any caller, with the requests that
\* give the provider customers and a card, and the deliveries of the events
\* the provider emits; one handler at a time.  A request names customer 1
\* and card 1, or leaves the id out.
NextIntent ==
    \/ \E email \in Emails, ok \in BOOLEAN : Customers_POST(1, email, "n", ok)
    \/ Customers_POST_save(1)
    \/ \E c \in CustomerIds : ConfirmCard(1, c) /\ req[1] = Idle
    \/ \E amount \in {0, 25}, c \in {0, 1}, pm \in {0, 1},
          saveCard \in BOOLEAN, offSession \in BOOLEAN,
          outcome \in {"succeeded", "card_declined", "error"} :
          PaymentIntents_POST(amount, c, pm, saveCard, offSession, outcome)
             /\ req[1] = Idle
    \/ \E ev \in EmittedEvents : Webhook_POST(1, ev, "valid")
    \/ \E ok \in BOOLEAN : Webhook_retrieved(1, ok)

SpecIntent == Init /\ [][NextIntent]_vars

\* Requests to /api/payment-intent with any amount, customer and payment
\* method, with the requests that give the provider customers and cards;
\* no deliveries.
NextCreate ==
    \/ \E email \in Emails, ok \in BOOLEAN : Customers_POST(1, email, "n", ok)
    \/ Customers_POST_save(1)
    \/ \E pm \in PMIds, c \in CustomerIds : ConfirmCard(pm, c) /\ req[1] = Idle
    \/ \E amount \in {-5, 0, 25}, c \in CustomerIds \cup {0}, pm \in PMIds \cup {0},
          saveCard \in BOOLEAN, offSession \in BOOLEAN,
          outcome \in {"succeeded", "card_declined", "error"} :
          PaymentIntents_POST(amount, c, pm, saveCard, offSession, outcome)
             /\ req[1] = Idle

SpecCreate == Init /\ [][NextCreate]_vars

\* Requests to /api/payment-intent after a customer got two cards, with the
\* requests that detach a card.
NextOwner ==
    \/ \E pm \in PMIds, ok \in BOOLEAN : PaymentMethods_DELETE(1, pm, ok)
    \/ PaymentMethods_DELETE_delete(1)
    \/ \E c \in CustomerIds \cup {0}, pm \in PMIds \cup {0}, offSession \in BOOLEAN,
          outcome \in {"succeeded", "error"} :
          PaymentIntents_POST(25, c, pm, FALSE, offSession, outcome)
             /\ req[1] = Idle

SpecOwner == InitLoaded /\ [][NextOwner]_vars

\* ------------------------------------------------- /api/customers (GET)
\* The page size GET asks for and its safety limit.
PageLimit == 100
SafetyLimit == 1000

\* Whether the pagination loop goes round again after a page of n customers
\* that brought the total to count: hasMore at the end of the iteration.
\* Variant without the check for an empty page.
ListContinues_NoEmptyCheck(count, n, has_more) ==
    has_more /\ ~(count >= SafetyLimit)

ListContinues(count, n, has_more) ==
    (has_more /\ n > 0) /\ ~(count >= SafetyLimit)

\* The sizes of the pages the provider answers with: an empty page, one
\* customer, a full page and one short of it.
PageSizes == {0, 1, PageLimit - 1, PageLimit}

\* GET without an id, up to the first await of stripe.customers.list.
Customers_GET ==
    /\ listReq.pc \in {"idle", "done"}
    /\ listReq' = [pc |-> "listing", count |-> 0, odd |-> FALSE]
    /\ UNCHANGED <<mirror, provider, req, cur, last, nReq, nDeliv, acked, form,
                   intents, pay, delivery>>

\* One iteration of the loop after stripe.customers.list answered with a
\* page of n customers and has_more, or threw (ok is false): the catch
\* empties the list.  When the loop ends the route answers with success.
\* "odd" is the parity of the number of pages fetched.
Customers_GET_page(n, has_more, ok) ==
    /\ listReq.pc = "listing"
    /\ IF ~ok
       THEN /\ listReq' = [pc |-> "done", count |-> 0, odd |-> ~listReq.odd]
            /\ last' = Response("customers.GET", 200, 0, 0, NoEvent, "")
       ELSE IF ListContinues(listReq.count + n, n, has_more)
       THEN /\ listReq' = [listReq EXCEPT !.count = listReq.count + n,
                                          !.odd = ~listReq.odd]
            /\ UNCHANGED last
       ELSE /\ listReq' = [pc |-> "done", count |-> listReq.count + n,
                           odd |-> ~listReq.odd]
            /\ last' = Response("customers.GET", 200, 0, 0, NoEvent, "")
    /\ UNCHANGED <<mirror, provider, req, cur, nReq, nDeliv, acked, form, intents,
                   pay, delivery>>

\* List requests with any sequence of page responses.
NextList ==
    \/ Customers_GET
    \/ \E n \in PageSizes, has_more \in BOOLEAN, ok \in BOOLEAN :
          Customers_GET_page(n, has_more, ok)

SpecList == Init /\ [][NextList]_vars

\* The provider answers every call of stripe.customers.list.
FairSpecList ==
    SpecList /\ WF_vars(\E n \in PageSizes, has_more \in BOOLEAN, ok \in BOOLEAN :
                           Customers_GET_page(n, has_more, ok))

\* ------------------------------------------------- the stores on their own
\* getAll of either store: the parsed content of the file, or [] when
\* readFileSync or JSON.parse throws.  readOk is whether the read succeeds;
\* the file is left as it is by a failed read.
DataStore_getAll(file, readOk) == IF readOk THEN file ELSE <<>>

\* CustomerDataStore.save: getAll, then the write of the updated list.
CustomerDataStore_save_write(customer, readOk) ==
    /\ customers' = CustomerDataStore_save(DataStore_getAll(customers, readOk),
                                           customer)
    /\ UNCHANGED <<paymentMethods, provider, req, cur, last, nReq, nDeliv, acked,
                   others, delivery>>

\* CustomerDataStore.delete: getAll, then the write of the filtered list
\* when it is shorter than the list read.
CustomerDataStore_delete_write(id, readOk) ==
    LET read == DataStore_getAll(customers, readOk)
        filteredCustomers == CustomerDataStore_delete(read, id)
    IN  /\ customers' = IF Len(filteredCustomers) < Len(read)
                        THEN filteredCustomers ELSE customers
        /\ UNCHANGED <<paymentMethods, provider, req, cur, last, nReq, nDeliv,
                       acked, others, delivery>>

\* PaymentMethodDataStore.save.
PaymentMethodDataStore_save_write(paymentMethod, readOk) ==
    /\ paymentMethods' =
          PaymentMethodDataStore_save(DataStore_getAll(paymentMethods, readOk),
                                      paymentMethod)
    /\ UNCHANGED <<customers, provider, req, cur, last, nReq, nDeliv, acked,
                   others, delivery>>

\* PaymentMethodDataStore.delete.
PaymentMethodDataStore_delete_write(id, readOk) ==
    LET read == DataStore_getAll(paymentMethods, readOk)
        filtered == PaymentMethodDataStore_delete(read, id)
    IN  /\ paymentMethods' = IF Len(filtered) < Len(read)
                             THEN filtered ELSE paymentMethods
        /\ UNCHANGED <<customers, provider, req, cur, last, nReq, nDeliv, acked,
                       others, delivery>>

\* Calls of save and delete on the two stores, with any record and id, and
\* with reads that succeed or fail.
NextStore ==
    \/ \E c \in CustomerIds, email \in Emails, readOk \in BOOLEAN :
          CustomerDataStore_save_write(CustomerData(c, email, "n"), readOk)
    \/ \E c \in CustomerIds, readOk \in BOOLEAN :
          CustomerDataStore_delete_write(c, readOk)
    \/ \E pm \in PMIds, c \in CustomerIds, isDefault \in BOOLEAN, readOk \in BOOLEAN :
          PaymentMethodDataStore_save_write(
              SavedPaymentMethod(StripePaymentMethod(pm), c, isDefault), readOk)
    \/ \E pm \in PMIds, readOk \in BOOLEAN :
          PaymentMethodDataStore_delete_write(pm, readOk)

SpecStore == Init /\ [][NextStore]_vars

\* ------------------------------------------------------------------ claims
\* Steps of the webhook endpoint, told from the variables.
\* A delivery of ev comes in (and has a valid signature).
ReceiptOf(ev) ==
    /\ nDeliv' = nDeliv + 1
    /\ \/ \E s \in Slots : req[s] = Idle /\ req'[s].op = "webhook" /\ req'[s].ev = ev
       \/ req' = req /\ last'.op = "webhook" /\ last'.status = 200 /\ last'.ev = ev
\* A delivery of ev that came in earlier goes on.
ContinuationOf(ev, again) ==
    \E s \in Slots :
        /\ req[s].op = "webhook" /\ req[s].ev = ev /\ (again => req[s].again)
        /\ req'[s] # req[s]

DefaultsOf(list, c) ==
    {i \in 1..Len(list) : list[i].customerId = c /\ list[i].isDefault}

\* C1: in every written state of the payment-method store, each customer
\* has at most one Instrument with isDefault = true.
C1_AtMostOneDefault ==
    \A c \in CustomerIds : Cardinality(DefaultsOf(paymentMethods, c)) <= 1

\* The whole mirror effect of an attach request and of a webhook-driven
\* upsert, as the handlers compose the store operations.
DirectUpsert(list, pm, c, isDefault) ==
    LET saved == PaymentMethodDataStore_save(list,
                     SavedPaymentMethod(StripePaymentMethod(pm), c, isDefault))
    IN  IF isDefault
        THEN PaymentMethodDataStore_setAsDefault(saved, pm, c)
        ELSE saved
WebhookUpsert(list, pm, c) ==
    PaymentMethodDataStore_save(list,
        SavedPaymentMethod(StripePaymentMethod(pm), c, FALSE))

\* C2: from every mirror state, a direct-call upsert (attach, with or
\* without isDefault) and a webhook-driven upsert of the same instrument
\* with the same card data leave the same record whichever is applied first.
C2_UpsertOrderIrrelevant ==
    \A pm \in PMIds, c \in CustomerIds, isDefault \in BOOLEAN :
        PaymentMethodDataStore_getById(
            WebhookUpsert(DirectUpsert(paymentMethods, pm, c, isDefault), pm, c), pm)
        = PaymentMethodDataStore_getById(
            DirectUpsert(WebhookUpsert(paymentMethods, pm, c), pm, c, isDefault), pm)

Succeeded(list) == {i \in 1..Len(list) : list[i].status = "succeeded"}

\* C3: the retry of an off-session charge that ended in
\* authentication-required creates no new PaymentIntent at the provider (it
\* works on the existing one), and the attempt never has two succeeded
\* PaymentIntents.
C3_RetryReusesIntent ==
    [][ /\ pay.pc = "retrying" => Len(intents') = Len(intents)
        /\ Cardinality(Succeeded(intents')) <= 1 ]_vars

\* C4: a delivery of an event the endpoint has already answered 2xx to is
\* answered 2xx again and no step of it changes the mirror.
C4_RedeliveryLeavesMirror ==
    [][ (acked.ev # NoEvent /\ (ReceiptOf(acked.ev) \/ ContinuationOf(acked.ev, TRUE)))
        => mirror' = mirror ]_vars

\* C5: once an event has been applied and the mirror is as its handler left
\* it, no step of a further delivery of the same event changes the mirror:
\* applied twice in succession, the event leaves what it left applied once.
C5_SecondApplicationNoOp ==
    [][ (acked.n >= 1 /\ acked.clean
         /\ (ReceiptOf(acked.ev) \/ ContinuationOf(acked.ev, FALSE)))
        => mirror' = mirror ]_vars

\* A handled event has been applied twice in a row and has left an
\* Instrument in the mirror.
C5_Witness ==
    /\ acked.n = 2 /\ acked.clean
    /\ acked.ev.type = "setup_intent.succeeded"
    /\ PaymentMethodDataStore_getById(paymentMethods, acked.ev.pm) # <<>>

\* C6: at the moment the save-card form reports success to the user, the
\* mirror already holds the Instrument the save-intent produced.
C6_MirrorBeforeSuccess ==
    form.pc = "success"
    => PaymentMethodDataStore_getById(paymentMethods, form.pm) # <<>>

\* The listing of the mirror's instruments of customer c holds pm exactly once.
ListedOnce(pm, c) ==
    LET listing == PaymentMethodDataStore_getByCustomerId(paymentMethods, c)
    IN  Cardinality({i \in 1..Len(listing) : listing[i].id = pm}) = 1

\* C7: once the save-intent has succeeded at the provider, and with the
\* provider redelivering setup_intent.succeeded until it is answered 2xx,
\* the listing of the customer's instruments eventually holds the new
\* instrument exactly once, even when one lookup of the card fails.
C7_EventuallyListedOnce ==
    (form.pc \in {"confirmed", "success"}) ~> ListedOnce(form.pm, form.cust)

\* C8: when the handler's lookup of the payment method failed, so that the
\* mirror update was not applied, the endpoint's answer is not a 2xx.
C8_FailureNotAcknowledged ==
    (last.op = "webhook" /\ last.err = "retrieve_failed")
    => last.status \notin 200..299

\* C9: every Instrument record names a Customer record that is in the mirror.
C9_CustomerIdResolves ==
    \A i \in 1..Len(paymentMethods) :
        CustomerDataStore_getById(customers, paymentMethods[i].customerId) # <<>>

\* C10: right after customer.deleted for customer c has been applied, the
\* mirror holds neither the Customer record c nor an Instrument of c.
C10_CascadeComplete ==
    (acked.ev.type = "customer.deleted" /\ acked.n >= 1 /\ acked.clean)
    => /\ CustomerDataStore_getById(customers, acked.ev.cust) = <<>>
       /\ PaymentMethodDataStore_getByCustomerId(paymentMethods, acked.ev.cust) = <<>>

\* customer.deleted has just been applied for a customer that had a payment
\* method attached at the provider.
C10_Witness ==
    /\ acked.ev.type = "customer.deleted" /\ acked.n >= 1 /\ acked.clean
    /\ \E p \in PMIds : stripePM[p].customer = acked.ev.cust

\* C11: while customer.deleted for customer c is being applied, every
\* written state of the mirror is either from before the cascade or holds
\* the whole of it: the Customer record is not gone while Instruments of c
\* are still there.
C11_NoPartialCascade ==
    \A s \in Slots :
        (req[s].op = "webhook" /\ req[s].ev.type = "customer.deleted"
         /\ CustomerDataStore_getById(customers, req[s].ev.cust) = <<>>)
        => PaymentMethodDataStore_getByCustomerId(paymentMethods, req[s].ev.cust) = <<>>

\* C12: when a delete-customer request for customer c answers success, the
\* mirror holds no Instrument whose customerId is c.
C12_DeleteRequestCascades ==
    [][ \A s \in Slots :
          Customers_DELETE_delete(s)
          => PaymentMethodDataStore_getByCustomerId(paymentMethods', req[s].cust) = <<>>
      ]_vars

\* A deletion of customer c has just been applied to the mirror: the last
\* answer is the success of a delete request for c, or customer.deleted for
\* c is the event applied most recently.
DeletionApplied(c) ==
    \/ last.op = "customers.DELETE" /\ last.status = 200 /\ last.cust = c
    \/ acked.ev.type = "customer.deleted" /\ acked.ev.cust = c /\ acked.n >= 1

\* C13: a Customer record is in the mirror only while no deletion of the
\* customer has been applied: once a deletion of c has been applied and the
\* record is gone, no later step (in particular no delivery of
\* customer.created for c) makes the record present again.
C13_DeletedStaysAbsent ==
    [][ \A c \in CustomerIds :
          (DeletionApplied(c) /\ CustomerDataStore_getById(customers, c) = <<>>)
          => CustomerDataStore_getById(customers', c) = <<>> ]_vars

\* In list, pm is an Instrument of customer c marked default, and no other
\* Instrument of c is.
OnlyDefault(list, pm, c) ==
    /\ \E i \in 1..Len(list) :
          list[i].id = pm /\ list[i].customerId = c /\ list[i].isDefault
    /\ \A i \in 1..Len(list) :
          (list[i].customerId = c /\ list[i].id # pm) => ~list[i].isDefault

\* C14: when a set-default request for customer c and instrument pm answers
\* success, the mirror marks pm as default and every other Instrument of c
\* as not default.
C14_SetDefaultMarks ==
    [][ \A s \in Slots :
          PaymentMethods_PATCH_setAsDefault(s)
          => OnlyDefault(paymentMethods', req[s].pm, req[s].cust) ]_vars

\* C15: once all set-default requests have completed, the Instrument the
\* mirror marks as default for a customer is the customer's default at the
\* provider.
C15_DefaultsAgree ==
    (\A s \in Slots : req[s] = Idle)
    => \A c \in CustomerIds :
          stripeDefault[c] # 0 => OnlyDefault(paymentMethods, stripeDefault[c], c)

\* C16: a delivery whose signature header is missing or does not verify is
\* answered with an error, starts no handler and leaves both stores as
\* they were.
C16_BadSignatureRejected ==
    [][ nDeliv' # nDeliv =>
          \A s \in Slots, ev \in EmittedEvents, sig \in {"invalid", "missing"} :
             Webhook_POST(s, ev, sig)
             => /\ last'.op = "webhook" /\ last'.status \in 400..599
                /\ req' = req
                /\ mirror' = mirror ]_vars

\* A delivery has been rejected for its signature while the mirror held a
\* Customer.
C16_Witness ==
    /\ last.op = "webhook" /\ last.status = 400
    /\ last.err \in {"invalid", "missing"}
    /\ customers # <<>>

\* C17: a correctly signed event of a type that is none of the six handled
\* ones is answered 2xx and leaves both stores as they were.
C17_UnknownTypeIgnored ==
    [][ nDeliv' # nDeliv =>
          \A s \in Slots, ev \in EmittedEvents :
             (ev.type \notin HandledTypes /\ Webhook_POST(s, ev, "valid"))
             => /\ last'.op = "webhook" /\ last'.status \in 200..299
                /\ last'.ev = ev
                /\ req' = req
                /\ mirror' = mirror ]_vars

\* An event of an unhandled type has been acknowledged while the mirror
\* held a Customer.
C17_Witness ==
    /\ last.op = "webhook" /\ last.status = 200
    /\ last.ev # NoEvent /\ last.ev.type \notin HandledTypes
    /\ customers # <<>>

\* C18: the mirror holds at most one Instrument record per instrument id.
C18_OneRecordPerId ==
    \A i, j \in 1..Len(paymentMethods) :
        paymentMethods[i].id = paymentMethods[j].id => i = j

\* payment_intent.succeeded with setup_future_usage has been applied twice
\* in a row and its Instrument is in the mirror.
C18_Witness ==
    /\ acked.n = 2 /\ acked.clean
    /\ acked.ev.type = "payment_intent.succeeded" /\ acked.ev.sfu
    /\ PaymentMethodDataStore_getById(paymentMethods, acked.ev.pm) # <<>>

C20_OffSessionConfirmed ==
    \A i \in 1..Len(intents) :
        intents[i].metadata.off_session
        => intents[i].confirm /\ intents[i].off_session

\* C21: whenever an off-session charge ends in authentication required,
\* the answer the form received carries the id of the PaymentIntent the
\* provider holds for the attempt, so that the authentication link names
\* that intent.
C21_AuthenticationNamesIntent ==
    pay.pc = "awaitingAuthentication"
    => /\ pay.shown \in 1..Len(intents)
       /\ intents[pay.shown].cust = pay.cust
       /\ intents[pay.shown].pm = pay.pm

\* C22: the HTTP status of a failing request reflects the class of the
\* error.  A detach request without an id is a validation error and is
\* answered 400; a detach of a payment method the provider does not hold
\* as attached (a stale instrument), while the provider is working, is a
\* not-found error and is answered 404.
C22_StatusReflectsErrorClass ==
    [][ \A s \in Slots :
          /\ PaymentMethods_DELETE(s, 0, TRUE) => last'.status = 400
          /\ \A pm \in PMIds :
                (PaymentMethods_DELETE(s, pm, TRUE)
                 /\ stripePM[pm].state # "attached")
                => last'.status = 404 ]_vars

\* C23: a PaymentIntent whose request asked to save the card exists at the
\* provider only if the request named a customer and the provider holds
\* that customer as existing and not deleted.
C23_SaveNeedsCustomer ==
    \A i \in 1..Len(intents) :
        intents[i].metadata.save_card
        => intents[i].cust # 0 /\ IsLive(intents[i].cust)

\* C24: a request to create a PaymentIntent whose amount is left out, zero
\* or negative is answered 400, whatever its other fields are and whatever
\* the provider would do: no PaymentIntent is created, and the provider and
\* the mirror stay as they were.  (The response names the customer and the
\* payment method of the request.)
C24_BadAmountRejected ==
    [][ (last'.op = "payment-intent.POST" /\ nReq' # nReq) =>
          \A amount \in {-5, 0}, saveCard \in BOOLEAN, offSession \in BOOLEAN,
             outcome \in ConfirmOutcomes :
             PaymentIntents_POST(amount, last'.cust, last'.pm, saveCard,
                                 offSession, outcome)
             => /\ last'.status = 400
                /\ intents' = intents
                /\ provider' = provider
                /\ mirror' = mirror ]_vars

\* A request with an invalid amount that names a live customer and a card
\* attached to it has been answered.
C24_Witness ==
    /\ last.op = "payment-intent.POST" /\ last.status = 400
    /\ last.err = "Valid amount is required"
    /\ last.cust # 0 /\ last.pm # 0 /\ IsAttachedTo(last.pm, last.cust)

C25_WebhookKeepsDefault ==
    [][ (nDeliv' # nDeliv \/ \E s \in Slots : req[s].op = "webhook" /\ req'[s] = Idle)
        => \A pm \in PMIds :
              (/\ PaymentMethodDataStore_getById(paymentMethods, pm) # <<>>
               /\ PaymentMethodDataStore_getById(paymentMethods', pm) # <<>>)
              => PaymentMethodDataStore_getById(paymentMethods', pm)[1].isDefault
                 = PaymentMethodDataStore_getById(paymentMethods, pm)[1].isDefault ]_vars

\* C26: when a request that writes to the provider and to the mirror got
\* as far as its provider call and that call failed (the handler did not
\* go on to its local write), the request is answered with a failure and
\* the mirror is as it was.  (A response names the ids of its request.)
C26_ProviderFailureKeepsMirror ==
    [][ (nReq' # nReq /\ req' = req) =>
          \A s \in Slots, ok \in BOOLEAN :
             (\/ \E email \in Emails, name \in {"n"} :
                    /\ CustomerDataStore_getByEmail(customers, email) = <<>>
                    /\ Customers_POST(s, email, name, ok)
              \/ last'.cust # 0 /\ Customers_DELETE(s, last'.cust, ok)
              \/ \E isDefault \in BOOLEAN :
                    /\ last'.pm # 0 /\ last'.cust # 0
                    /\ PaymentMethods_POST(s, last'.pm, last'.cust, isDefault, ok)
              \/ /\ last'.pm # 0 /\ last'.cust # 0
                 /\ PaymentMethods_PATCH(s, last'.pm, last'.cust, "set_default", ok)
              \/ last'.pm # 0 /\ PaymentMethods_DELETE(s, last'.pm, ok))
             => /\ last'.status \notin 200..299
                /\ mirror' = mirror ]_vars

\* A detach whose provider call failed has been answered with a failure
\* while the mirror holds the record of the payment method.
C26_Witness ==
    /\ last.op = "payment-methods.DELETE" /\ last.status = 500
    /\ PaymentMethodDataStore_getById(paymentMethods, last.pm) # <<>>

\* C28: create-customer requests with the same email, however their steps
\* interleave, leave at most one customer with that email at the provider
\* and at most one Customer record with it in the mirror.
C28_OneCustomerPerEmail ==
    \A email \in Emails :
        /\ Cardinality({c \in CustomerIds : /\ stripeCust[c].state # "none"
                                            /\ stripeCust[c].email = email}) <= 1
        /\ Len(CustomerDataStore_getByEmail(customers, email)) <= 1

\* The ids whose record differs between two contents of a store.
ChangedIds(before, after, ids) ==
    {id \in ids : SelectSeq(after, LAMBDA r : r.id = id)
                  # SelectSeq(before, LAMBDA r : r.id = id)}

\* C29: a call of save or delete on a store changes the record of at most
\* one id: every record with another id that was stored before the call is
\* stored unchanged after it, also when the read of the file fails.
C29_OtherRecordsKept ==
    [][ /\ Cardinality(ChangedIds(customers, customers', CustomerIds)) <= 1
        /\ Cardinality(ChangedIds(paymentMethods, paymentMethods', PMIds)) <= 1 ]_vars

\* C30: a list request always comes to its end and is answered with
\* success, whatever pages the provider answers with.
C30_ListingTerminates ==
    (listReq.pc = "listing")
    ~> (listReq.pc = "done" /\ last.op = "customers.GET" /\ last.status = 200)

\* A list request ended because the safety limit was reached.
C30_Witness ==
    listReq.pc = "done" /\ listReq.count >= SafetyLimit

====
